---- MODULE Spec2Model ----
(***************************************************************************)
(* State-machine model of the chat client: the ChatInterface / InputBox    *)
(* pair (components/ChatInterface.jsx), the FileManagement view            *)
(* (components/FileManagement.jsx) and the fetch wrappers they call         *)
(* (services/api.js).                                                      *)
(*                                                                         *)
(* JavaScript runs every handler to its next `await` without interleaving, *)
(* and React commits the state set by a discrete event handler before the  *)
(* next event is dispatched.  An action below is therefore one such        *)
(* run-to-completion segment: an event handler up to its first await, or   *)
(* the continuation that runs when an awaited call settles.                *)
(*                                                                         *)
(* Text is a sequence of one-character strings, so that trim() is          *)
(* computed and not assumed.  Message timestamps are wall-clock readings   *)
(* that no control flow depends on; they are left out.                     *)
(***************************************************************************)
EXTENDS Naturals, Sequences, FiniteSets, Bags, TLC

(* ------------------------------ bounds --------------------------------- *)
MaxInputLen == 2
MaxTurns == 2
MaxOps == 2

(* ------------------------------ text ----------------------------------- *)
Chars == {"h", " "}

RECURSIVE StringsUpTo(_)
StringsUpTo(n) ==
  IF n = 0 THEN {<<>>}
  ELSE StringsUpTo(n - 1) \cup
       {Append(s, c) : s \in {x \in StringsUpTo(n - 1) : Len(x) = n - 1}, c \in Chars}

Inputs == StringsUpTo(MaxInputLen)

IsWhitespace(c) == c = " "

RECURSIVE TrimStart(_)
TrimStart(s) ==
  IF s # <<>> /\ IsWhitespace(Head(s)) THEN TrimStart(Tail(s)) ELSE s

RECURSIVE TrimEnd(_)
TrimEnd(s) ==
  IF s # <<>> /\ IsWhitespace(s[Len(s)]) THEN TrimEnd(SubSeq(s, 1, Len(s) - 1)) ELSE s

Trim(s) == TrimEnd(TrimStart(s))

\* JavaScript truthiness of a string: the empty string is falsy.
Truthy(s) == s # <<>>

(* ------------------------------ HTTP ----------------------------------- *)
\* What fetch() can settle with: a rejection (transport failure), or a
\* response with its ok flag and a body that parses as JSON or does not.
NotJson == [notJson |-> TRUE]
NetFail == [net |-> "fail", ok |-> FALSE, body |-> NotJson]
HttpResp(ok, body) == [net |-> "resp", ok |-> ok, body |-> body]
ErrorBody == [detail |-> "error"]

Thrown == [threw |-> TRUE, value |-> NotJson]
Returned(v) == [threw |-> FALSE, value |-> v]

\* response.json(): rejects when the body is not JSON.
Json(resp) == IF resp.body = NotJson THEN Thrown ELSE Returned(resp.body)

\* obj.field as JavaScript reads it: undefined when the field is absent.
Undefined == "undefined"
Has(obj, field) == field \in DOMAIN obj
Get(obj, field) == IF Has(obj, field) THEN obj[field] ELSE Undefined

\* fetch, then `if (!response.ok) throw`, then `return await response.json()`.
CheckedCall(resp) ==
  IF resp.net = "fail" THEN Thrown
  ELSE IF ~resp.ok THEN Thrown
  ELSE Json(resp)

\* fetch, then `return await response.json()` with no look at response.ok.
UncheckedCall(resp) ==
  IF resp.net = "fail" THEN Thrown ELSE Json(resp)

(* ------------------------------ chat ----------------------------------- *)
Replies == {<<"r">>}

ChatResponses ==
  {NetFail, HttpResp(FALSE, ErrorBody), HttpResp(TRUE, NotJson)}
    \cup {HttpResp(TRUE, [reply |-> r]) : r \in Replies}

\* Fault: response.ok is not looked at.
sendMessageUnchecked(resp) == UncheckedCall(resp)

\* chatAPI.sendMessage: its catch logs and rethrows.
sendMessage(resp) == CheckedCall(resp)

FallbackText == <<"Sorry, I encountered an error. Please try again.">>

userMessage(text) == [text |-> text, sender |-> "user"]
botMessage(reply) == [text |-> reply, sender |-> "bot"]
errorMessage == [text |-> FallbackText, sender |-> "bot", isError |-> TRUE]

\* response.reply, as text.
replyOf(response) == IF Has(response, "reply") THEN response.reply ELSE <<Undefined>>

\* message.isError as JavaScript reads it: undefined (falsy) when absent.
IsError(m) == "isError" \in DOMAIN m /\ m.isError

\* input         InputBox's input state (ChatInterface.jsx:68)
\* messages      ChatInterface's messages state (:7)
\* isLoading     ChatInterface's isLoading state (:8)
\* chatCalls     how many chatAPI.sendMessage calls have been issued (:31)
\* chatInFlight  the handleSendMessage invocations suspended at their await,
\*               each with what it closed over (:19-31)
\* lastChat      history: what the last chat step was, and what it met
VARIABLES input, messages, isLoading, chatCalls, chatInFlight, lastChat

chatVars == <<input, messages, isLoading, chatCalls, chatInFlight, lastChat>>

NoChat == [op |-> "none"]

ChatInit ==
  /\ input = <<>>
  /\ messages = <<>>
  /\ isLoading = FALSE
  /\ chatCalls = 0
  /\ chatInFlight = EmptyBag
  /\ lastChat = NoChat

\* onChange of the text input; a disabled input takes no typing.
ChangeInput(s) ==
  /\ ~isLoading
  /\ s # input
  /\ input' = s
  /\ lastChat' = [op |-> "change"]
  /\ UNCHANGED <<messages, isLoading, chatCalls, chatInFlight>>

\* Fault: the reply is appended to the list the render closed over, which
\* lacks the user message.
settledMessagesStale(updatedMessages, reply) ==
  Append(SubSeq(updatedMessages, 1, Len(updatedMessages) - 1), reply)

\* Fault: the reply replaces the list.
settledMessagesReplace(updatedMessages, reply) == <<reply>>

\* The list handleSendMessage hands to setMessages when its call settles.
settledMessages(updatedMessages, reply) == Append(updatedMessages, reply)

\* Fault: the flag is never raised.
loadingNeverRaised == FALSE

\* The value of isLoading that handleSendMessage sets before its call.
loadingWhileAwaiting == TRUE

\* Fault: the user message reaches the list only with the reply.
HandleSendMessageLate(message) ==
  LET updatedMessages == Append(messages, userMessage(message))
  IN /\ messages' = messages
     /\ isLoading' = loadingWhileAwaiting
     /\ chatCalls' = chatCalls + 1
     /\ chatInFlight' = chatInFlight (+)
          SetToBag({[message |-> message, messages |-> messages,
                     updatedMessages |-> updatedMessages]})

\* handleSendMessage up to `await chatAPI.sendMessage(message)`: the user
\* message is appended to the list this render closed over, the flag is
\* raised and the request is issued.
HandleSendMessage(message) ==
  LET updatedMessages == Append(messages, userMessage(message))
  IN /\ messages' = updatedMessages
     /\ isLoading' = loadingWhileAwaiting
     /\ chatCalls' = chatCalls + 1
     /\ chatInFlight' = chatInFlight (+)
          SetToBag({[message |-> message, messages |-> messages,
                     updatedMessages |-> updatedMessages]})

\* Fault: the input is tested without trim().
submitAcceptedUntrimmed(in, loading) == Truthy(in) /\ ~loading

\* InputBox.handleSubmit's condition.
submitAccepted(in, loading) == Truthy(Trim(in)) /\ ~loading

\* InputBox.handleSubmit (a submit event, or Enter through handleKeyPress).
HandleSubmit ==
  /\ IF submitAccepted(input, isLoading)
       THEN /\ Len(messages) < 2 * MaxTurns
            /\ HandleSendMessage(Trim(input))
            /\ input' = <<>>
       ELSE UNCHANGED <<input, messages, isLoading, chatCalls, chatInFlight>>
  /\ lastChat' = [op |-> "submit", input |-> input, wasLoading |-> isLoading,
                  before |-> messages,
                  calls |-> chatCalls' - chatCalls,
                  inFlightBefore |-> BagCardinality(chatInFlight)]

\* Fault: the finally leaves the flag raised.
loadingLeftRaised == TRUE

\* The value of isLoading that handleSendMessage's finally sets.
loadingAfterSettle == FALSE

\* Fault: the catch sends the message once more.
callsAfterSettleRetry(calls, threw) == IF threw THEN calls + 1 ELSE calls

\* The chat calls issued once a call has settled: neither the try's
\* remainder nor the catch issues another.
callsAfterSettle(calls, threw) == calls

\* handleSendMessage from the point its awaited call settles with resp:
\* the try's remainder or the catch, then the finally.
SendMessageSettles(t, resp) ==
  LET response == sendMessage(resp)
      reply == IF response.threw THEN errorMessage
               ELSE botMessage(replyOf(response.value))
  IN /\ BagIn(t, chatInFlight)
     /\ chatInFlight' = chatInFlight (-) SetToBag({t})
     /\ messages' = settledMessages(t.updatedMessages, reply)
     /\ isLoading' = loadingAfterSettle
     /\ chatCalls' = callsAfterSettle(chatCalls, response.threw)
     /\ lastChat' = [op |-> "settle", message |-> t.message, before |-> t.messages,
                     resp |-> resp]
     /\ UNCHANGED <<input>>

(* ------------------------------ backend -------------------------------- *)
FileNames == {"report.pdf"}
NoFile == "<none>"

\* The result of an awaited call that has not settled yet.
Pending == [threw |-> FALSE, value |-> [pending |-> TRUE]]

Failures == {NetFail, HttpResp(FALSE, ErrorBody)}

\* The responses the backend can give to a call, given its document store.
\* Duplicate detection on upload is the backend's own and opaque.
ServerResponses(call, arg, store) ==
  CASE call = "upload" ->
         Failures \cup {HttpResp(TRUE, [status |-> "duplicate"]),
                        HttpResp(TRUE, [status |-> "ok"])}
    [] call = "delete" ->
         IF arg \in store
           THEN Failures \cup {HttpResp(TRUE, [status |-> "deleted"])}
           ELSE Failures
    [] call = "list" ->
         Failures \cup {HttpResp(TRUE, [files |-> store])}
    [] call = "status" ->
         Failures \cup {HttpResp(FALSE, NotJson),
                        HttpResp(TRUE, [rag_initialized |-> store # {},
                                        file_count |-> Cardinality(store)])}
    [] call = "reinit" ->
         Failures \cup {HttpResp(FALSE, NotJson), HttpResp(TRUE, [status |-> "ok"])}

\* The document store after the backend has answered a call with resp.
StoreAfter(call, arg, resp, store) ==
  IF resp.net = "resp" /\ resp.ok
    THEN CASE call = "upload" /\ Get(resp.body, "status") = "ok" -> store \cup {arg}
           [] call = "delete" -> store \ {arg}
           [] OTHER -> store
    ELSE store

(* ------------------------------ api.js --------------------------------- *)
\* Fault: response.ok is not looked at.
uploadFileUnchecked(resp) == UncheckedCall(resp)

uploadFile(resp) == CheckedCall(resp)

\* Fault: response.ok is not looked at.
deleteFileUnchecked(resp) == UncheckedCall(resp)

deleteFile(resp) == CheckedCall(resp)
listFiles(resp) == CheckedCall(resp)
getStatus(resp) == UncheckedCall(resp)
reinitialize(resp) == UncheckedCall(resp)

\* What the api.js function behind an awaited call settles with.
ApiResult(call, resp) ==
  CASE call = "upload" -> uploadFile(resp)
    [] call = "delete" -> deleteFile(resp)
    [] call = "list" -> listFiles(resp)
    [] call = "status" -> getStatus(resp)
    [] call = "reinit" -> reinitialize(resp)

(* --------------------------- FileManagement ---------------------------- *)
\* files           FileManagement's files state (FileManagement.jsx:5), as the
\*                 set of the listed filenames
\* uploading       its uploading state (:6)
\* ragStatus       its ragStatus state (:7)
\* fileInputValue  the file input's value (:55)
\* mounted         whether the mount effect has run (:9-12)
\* tasks           the handler invocations suspended at an await (:14-81)
\* timers          the pending timeouts (:77): the seconds left, and the
\*                 seconds gone by since setTimeout was called
\* started         how many handler invocations have been started
\* serverFiles     the backend's document store
\* lastFile        history: what the last step of the file view was
VARIABLES files, uploading, ragStatus, fileInputValue, mounted,
          tasks, timers, started, serverFiles, lastFile

fileVars == <<files, uploading, ragStatus, fileInputValue, mounted,
              tasks, timers, started, serverFiles, lastFile>>

\* useState({}): an object with no fields.
EmptyObject == [x \in {} |-> x]

\* What the status card reads from ragStatus.
ragInitialized(s) == Has(s, "rag_initialized") /\ s.rag_initialized
fileCount(s) == IF Has(s, "file_count") THEN s.file_count ELSE 0

NoStep == [op |-> "none"]
Step == [op |-> "step"]

\* A handler suspended at an awaited call: which handler (kind), which
\* call it awaits (pc), what that call settles with once the backend has
\* answered (result), whether the HTTP exchange behind it failed (failed), the calls of this
\* invocation that have settled (log), and which of the view's state this
\* invocation has changed so far (wrote).
Task(kind, pc, arg, wrote) ==
  [kind |-> kind, pc |-> pc, arg |-> arg, result |-> Pending, failed |-> FALSE,
   log |-> <<>>, wrote |-> wrote]

FileInit ==
  /\ files = {}
  /\ uploading = FALSE
  /\ ragStatus = EmptyObject
  /\ fileInputValue = ""
  /\ mounted = FALSE
  /\ tasks = EmptyBag
  /\ timers = EmptyBag
  /\ started = 0
  /\ serverFiles \in SUBSET FileNames
  /\ lastFile = NoStep

\* Fault: the effect calls loadFiles() alone.
MountListOnly ==
  /\ ~mounted
  /\ mounted' = TRUE
  /\ tasks' = tasks (+) SetToBag({Task("loadFiles", "list", "", {})})
  /\ lastFile' = [op |-> "mount"]
  /\ UNCHANGED <<files, uploading, ragStatus, fileInputValue, timers, started, serverFiles>>

\* useEffect(..., []): loadFiles() and loadRAGStatus() both run to their
\* first await, so both fetches are outstanding together.
Mount ==
  /\ ~mounted
  /\ mounted' = TRUE
  /\ tasks' = tasks (+) SetToBag({Task("loadFiles", "list", "", {}),
                                  Task("loadRAGStatus", "status", "", {})})
  /\ lastFile' = [op |-> "mount"]
  /\ UNCHANGED <<files, uploading, ragStatus, fileInputValue, timers, started, serverFiles>>

\* The backend answers an outstanding call, which settles the api.js
\* function the handler awaits; the handler resumes in a later step.
ServerHandles(t, resp) ==
  /\ BagIn(t, tasks)
  /\ t.result = Pending
  /\ resp \in ServerResponses(t.pc, t.arg, serverFiles)
  /\ serverFiles' = StoreAfter(t.pc, t.arg, resp, serverFiles)
  /\ tasks' = (tasks (-) SetToBag({t})) (+) SetToBag({[t EXCEPT !.result = ApiResult(t.pc, resp),
                                    !.failed = resp.net = "fail" \/ ~resp.ok]})
  /\ lastFile' = Step
  /\ UNCHANGED <<files, uploading, ragStatus, fileInputValue, mounted, timers, started>>

\* Which of the view's state a step has changed.
Written ==
  {v \in {"files", "ragStatus", "uploading"} :
     \/ v = "files" /\ files' # files
     \/ v = "ragStatus" /\ ragStatus' # ragStatus
     \/ v = "uploading" /\ uploading' # uploading}

Settled(t) ==
  Append(t.log, [call |-> t.pc, threw |-> t.result.threw, failed |-> t.failed,
                 status |-> Get(t.result.value, "status")])

\* The handler goes on to its next awaited call.
Continue(t, call) ==
  /\ tasks' = (tasks (-) SetToBag({t})) (+)
       SetToBag({[t EXCEPT !.pc = call, !.result = Pending, !.failed = FALSE,
                           !.log = Settled(t),
                           !.wrote = t.wrote \cup Written]})
  /\ lastFile' = Step

\* The handler returns.
Finish(t, alert) ==
  /\ tasks' = tasks (-) SetToBag({t})
  /\ lastFile' = [op |-> "done", kind |-> t.kind, arg |-> t.arg,
                  log |-> Settled(t), wrote |-> t.wrote \cup Written,
                  alert |-> alert,
                  scheduled |-> BagCardinality(timers') - BagCardinality(timers)]

\* loadFiles from the point listFiles settles: setFiles, or the catch.
filesLoaded(result) ==
  IF result.threw THEN files ELSE Get(result.value, "files")

\* loadRAGStatus from the point getStatus settles: setRagStatus, or the catch.
statusLoaded(result) ==
  IF result.threw THEN ragStatus ELSE result.value

\* Fault: the file input is never disabled.
fileInputNeverDisabled(flag) == FALSE

\* The file input's disabled={uploading}.
fileInputDisabled(flag) == flag

\* A disabled file input fires no change event, so none reaches
\* handleFileUpload then.  The handler runs to `await fileAPI.uploadFile`.
HandleFileUpload(file) ==
  /\ mounted
  /\ ~fileInputDisabled(uploading)
  /\ IF file = NoFile
       THEN UNCHANGED <<uploading, fileInputValue, tasks, started>>
       ELSE /\ started < MaxOps
            /\ started' = started + 1
            /\ uploading' = TRUE
            /\ fileInputValue' = file
            /\ tasks' = tasks (+) SetToBag({Task("upload", "upload", file, {"uploading"})})
  /\ lastFile' = Step
  /\ UNCHANGED <<files, ragStatus, mounted, timers, serverFiles>>

\* Fault: the duplicate result is not told apart.
uploadRefreshesAlways(result) == TRUE

\* Fault: the test is inverted.
uploadRefreshesInverted(result) == Get(result, "status") = "duplicate"

\* Whether the upload's result sends the handler on to the two refreshes.
uploadRefreshes(result) == Get(result, "status") # "duplicate"

\* Fault: the flag is not cleared.
uploadFinallyKeepsFlag ==
  /\ uploading' = uploading
  /\ fileInputValue' = ""

\* handleFileUpload's finally.
uploadFinally ==
  /\ uploading' = FALSE
  /\ fileInputValue' = ""

\* handleFileUpload from the point an awaited call settles.
UploadResumes(t) ==
  /\ t.kind = "upload"
  /\ UNCHANGED <<timers>>
  /\ CASE t.pc = "upload" ->
            LET result == t.result
            IN IF result.threw
                 THEN /\ uploadFinally
                      /\ UNCHANGED <<files, ragStatus>>
                      /\ Finish(t, "Error al subir el archivo")
                 ELSE IF uploadRefreshes(result.value)
                   THEN /\ UNCHANGED <<files, ragStatus, uploading, fileInputValue>>
                        /\ Continue(t, "list")
                   ELSE /\ uploadFinally
                        /\ UNCHANGED <<files, ragStatus>>
                        /\ Finish(t, "El archivo ya existe en el sistema")
       [] t.pc = "list" ->
            /\ files' = filesLoaded(t.result)
            /\ UNCHANGED <<ragStatus, uploading, fileInputValue>>
            /\ Continue(t, "status")
       [] t.pc = "status" ->
            /\ ragStatus' = statusLoaded(t.result)
            /\ uploadFinally
            /\ UNCHANGED files
            /\ Finish(t, "Archivo subido exitosamente")

\* Fault: the answer is not looked at.
deleteProceedsAlways(confirmed) == TRUE

\* window.confirm's answer decides whether handleDeleteFile does anything.
deleteProceeds(confirmed) == confirmed

\* handleDeleteFile, from a file card's button, up to `await deleteFile`.
HandleDeleteFile(filename, confirmed) ==
  /\ mounted
  /\ filename \in files
  /\ IF deleteProceeds(confirmed)
       THEN /\ started < MaxOps
            /\ started' = started + 1
            /\ tasks' = tasks (+) SetToBag({Task("delete", "delete", filename, {})})
       ELSE UNCHANGED <<tasks, started>>
  /\ UNCHANGED <<files, uploading, ragStatus, fileInputValue, mounted, timers, serverFiles>>
  /\ lastFile' = [op |-> "event", handler |-> "handleDeleteFile", arg |-> filename,
                  confirmed |-> confirmed,
                  changed |-> <<files, uploading, ragStatus, fileInputValue>>'
                                # <<files, uploading, ragStatus, fileInputValue>>,
                  issued |-> tasks' # tasks \/ timers' # timers]

\* Fault: the handler returns after loadFiles, with no loadRAGStatus.
DeleteResumesNoStatus(t) ==
  /\ t.kind = "delete"
  /\ UNCHANGED <<uploading, fileInputValue, timers>>
  /\ CASE t.pc = "delete" ->
            /\ UNCHANGED <<files, ragStatus>>
            /\ IF t.result.threw
                 THEN Finish(t, "Error al eliminar el archivo")
                 ELSE Continue(t, "list")
       [] t.pc = "list" ->
            /\ files' = filesLoaded(t.result)
            /\ UNCHANGED ragStatus
            /\ Finish(t, "Archivo eliminado exitosamente")

\* handleDeleteFile from the point an awaited call settles.
DeleteResumes(t) ==
  /\ t.kind = "delete"
  /\ UNCHANGED <<uploading, fileInputValue, timers>>
  /\ CASE t.pc = "delete" ->
            /\ UNCHANGED <<files, ragStatus>>
            /\ IF t.result.threw
                 THEN Finish(t, "Error al eliminar el archivo")
                 ELSE Continue(t, "list")
       [] t.pc = "list" ->
            /\ files' = filesLoaded(t.result)
            /\ UNCHANGED ragStatus
            /\ Continue(t, "status")
       [] t.pc = "status" ->
            /\ ragStatus' = statusLoaded(t.result)
            /\ UNCHANGED files
            /\ Finish(t, "Archivo eliminado exitosamente")

\* setTimeout(loadRAGStatus, 3000), in seconds.
ReinitDelay == 3

\* handleReinitializeRAG up to `await ragAPI.reinitialize()`.
HandleReinitializeRAG ==
  /\ mounted
  /\ started < MaxOps
  /\ started' = started + 1
  /\ tasks' = tasks (+) SetToBag({Task("reinit", "reinit", "", {})})
  /\ lastFile' = Step
  /\ UNCHANGED <<files, uploading, ragStatus, fileInputValue, mounted, timers, serverFiles>>

\* setTimeout(callback, delay): a timeout with its whole delay ahead.
Timeout(delay) == [left |-> delay, elapsed |-> 0]

\* Fault: setTimeout is given no delay.
ReinitResumesImmediate(t) ==
  /\ t.kind = "reinit"
  /\ UNCHANGED <<files, uploading, ragStatus, fileInputValue>>
  /\ IF t.result.threw
       THEN /\ UNCHANGED timers
            /\ Finish(t, "")
       ELSE /\ timers' = timers (+) SetToBag({Timeout(0)})
            /\ Finish(t, "Sistema RAG se esta reinicializando...")

\* handleReinitializeRAG from the point reinitialize settles.
ReinitResumes(t) ==
  /\ t.kind = "reinit"
  /\ UNCHANGED <<files, uploading, ragStatus, fileInputValue>>
  /\ IF t.result.threw
       THEN /\ UNCHANGED timers
            /\ Finish(t, "")
       ELSE /\ timers' = timers (+) SetToBag({Timeout(ReinitDelay)})
            /\ Finish(t, "Sistema RAG se esta reinicializando...")

\* A loadFiles() or loadRAGStatus() not awaited by a handler (mount, timer).
LoadResumes(t) ==
  /\ t.kind \in {"loadFiles", "loadRAGStatus"}
  /\ UNCHANGED <<uploading, fileInputValue, timers>>
  /\ IF t.kind = "loadFiles"
       THEN /\ files' = filesLoaded(t.result)
            /\ UNCHANGED ragStatus
            /\ Finish(t, "")
       ELSE /\ ragStatus' = statusLoaded(t.result)
            /\ UNCHANGED files
            /\ Finish(t, "")

\* The continuation of a handler whose awaited call has been answered.
Resumes(t) ==
  /\ BagIn(t, tasks)
  /\ t.result # Pending
  /\ \/ UploadResumes(t)
     \/ DeleteResumes(t)
     \/ ReinitResumes(t)
     \/ LoadResumes(t)
  /\ UNCHANGED <<mounted, started, serverFiles>>

\* One second passes for every pending timeout.
Tick ==
  /\ \E d \in BagToSet(timers) : d.left > 0
  /\ timers' = BagOfAll(LAMBDA d : [left |-> IF d.left > 0 THEN d.left - 1 ELSE 0,
                                    elapsed |-> IF d.elapsed < ReinitDelay
                                                  THEN d.elapsed + 1 ELSE d.elapsed],
                        timers)
  /\ lastFile' = Step
  /\ UNCHANGED <<files, uploading, ragStatus, fileInputValue, mounted, tasks, started, serverFiles>>

\* A timeout whose delay has elapsed runs loadRAGStatus.
TimerFires ==
  /\ \E d \in BagToSet(timers) :
       /\ d.left = 0
       /\ timers' = timers (-) SetToBag({d})
       /\ lastFile' = [op |-> "timer", elapsed |-> d.elapsed]
  /\ tasks' = tasks (+) SetToBag({Task("loadRAGStatus", "status", "timer", {})})
  /\ UNCHANGED <<files, uploading, ragStatus, fileInputValue, mounted, started, serverFiles>>

ServerNext ==
  \E t \in BagToSet(tasks) :
    \E resp \in ServerResponses(t.pc, t.arg, serverFiles) : ServerHandles(t, resp)

(* --------------------------- specifications ---------------------------- *)
vars == <<chatVars, fileVars>>

Init == ChatInit /\ FileInit

\* App mounts the two components side by side; they share no state.
Next ==
  \/ \E s \in Inputs : ChangeInput(s) /\ UNCHANGED fileVars
  \/ HandleSubmit /\ UNCHANGED fileVars
  \/ \E t \in BagToSet(chatInFlight), resp \in ChatResponses :
       SendMessageSettles(t, resp) /\ UNCHANGED fileVars
  \/ Mount /\ UNCHANGED chatVars
  \/ \E file \in FileNames \cup {NoFile} : HandleFileUpload(file) /\ UNCHANGED chatVars
  \/ \E filename \in FileNames, confirmed \in BOOLEAN :
       HandleDeleteFile(filename, confirmed) /\ UNCHANGED chatVars
  \/ HandleReinitializeRAG /\ UNCHANGED chatVars
  \/ ServerNext /\ UNCHANGED chatVars
  \/ \E t \in BagToSet(tasks) : Resumes(t) /\ UNCHANGED chatVars
  \/ Tick /\ UNCHANGED chatVars
  \/ TimerFires /\ UNCHANGED chatVars

Spec == Init /\ [][Next]_vars

\* The chat session on its own.
ChatOnly ==
  \/ \E s \in Inputs : ChangeInput(s) /\ UNCHANGED fileVars
  \/ HandleSubmit /\ UNCHANGED fileVars
  \/ \E t \in BagToSet(chatInFlight), resp \in ChatResponses :
       SendMessageSettles(t, resp) /\ UNCHANGED fileVars

ChatSpec == Init /\ [][ChatOnly]_vars

\* The file view on its own.
FileOnly ==
  \/ Mount /\ UNCHANGED chatVars
  \/ \E file \in FileNames \cup {NoFile} : HandleFileUpload(file) /\ UNCHANGED chatVars
  \/ \E filename \in FileNames, confirmed \in BOOLEAN :
       HandleDeleteFile(filename, confirmed) /\ UNCHANGED chatVars
  \/ HandleReinitializeRAG /\ UNCHANGED chatVars
  \/ ServerNext /\ UNCHANGED chatVars
  \/ \E t \in BagToSet(tasks) : Resumes(t) /\ UNCHANGED chatVars
  \/ Tick /\ UNCHANGED chatVars
  \/ TimerFires /\ UNCHANGED chatVars

FileSpec == Init /\ [][FileOnly]_vars

\* The backend answers an outstanding call with a success status.
ServerSucceeds ==
  \E t \in BagToSet(tasks) :
    \E resp \in {r \in ServerResponses(t.pc, t.arg, serverFiles) :
                   r.net = "resp" /\ r.ok} : ServerHandles(t, resp)

\* The file view when every call it makes succeeds.
FileOkOnly ==
  \/ Mount /\ UNCHANGED chatVars
  \/ \E file \in FileNames \cup {NoFile} : HandleFileUpload(file) /\ UNCHANGED chatVars
  \/ \E filename \in FileNames, confirmed \in BOOLEAN :
       HandleDeleteFile(filename, confirmed) /\ UNCHANGED chatVars
  \/ HandleReinitializeRAG /\ UNCHANGED chatVars
  \/ ServerSucceeds /\ UNCHANGED chatVars
  \/ \E t \in BagToSet(tasks) : Resumes(t) /\ UNCHANGED chatVars
  \/ Tick /\ UNCHANGED chatVars
  \/ TimerFires /\ UNCHANGED chatVars

FileOkSpec == Init /\ [][FileOkOnly]_vars

\* The chat session as the submit of "h" leaves it: awaiting the reply.
ChatPendingInit ==
  LET message == <<"h">>
      updatedMessages == <<userMessage(message)>>
  IN /\ input = <<>>
     /\ messages = updatedMessages
     /\ isLoading = loadingWhileAwaiting
     /\ chatCalls = 1
     /\ chatInFlight = SetToBag({[message |-> message, messages |-> <<>>,
                                  updatedMessages |-> updatedMessages]})
     /\ lastChat = [op |-> "submit", input |-> message, wasLoading |-> FALSE,
                    before |-> <<>>, calls |-> 1, inFlightBefore |-> 0]

\* The file view beside a chat session that is idle, or awaiting a reply
\* that does not come while the file view runs.
BesideChatInit == (ChatInit \/ ChatPendingInit) /\ FileInit

FileBesideChatSpec == BesideChatInit /\ [][FileOnly]_vars

\* A step of an upload in progress: the backend answers the call it awaits,
\* or the handler resumes.
UploadProgress ==
  \E t \in BagToSet(tasks) :
    /\ t.kind = "upload"
    /\ \/ \E resp \in ServerResponses(t.pc, t.arg, serverFiles) : ServerHandles(t, resp)
       \/ Resumes(t)
    /\ UNCHANGED chatVars

\* The file view when the network calls of an upload settle.
FairFileSpec == FileSpec /\ WF_vars(UploadProgress)

(* ------------------------------ chat claims ---------------------------- *)
WhitespaceOnly(s) == \A i \in 1..Len(s) : s[i] = " "

\* The last chat step was a submit event (lastChat then describes it, and
\* the state is the one it left).
Submitted == lastChat.op = "submit"

\* The last chat step was the settling of a chat call.
SettledTurn == lastChat.op = "settle"

CallFailed(resp) == resp.net = "fail" \/ ~resp.ok
CallSucceeded(resp) == resp.net = "resp" /\ resp.ok /\ Has(resp.body, "reply")

\* C1: at most one chat request is outstanding in every reachable state, and
\* a submission made while the session is pending leaves the transcript
\* and the number of chat calls issued as they were.
C1_ChatSingleFlight ==
  /\ BagCardinality(chatInFlight) <= 1
  /\ (Submitted /\ lastChat.wasLoading) =>
       /\ messages = lastChat.before
       /\ lastChat.calls = 0
       /\ BagCardinality(chatInFlight) = lastChat.inFlightBefore

C1_Witness ==
  /\ Submitted /\ lastChat.wasLoading
  /\ BagCardinality(chatInFlight) = 1
  /\ Len(messages) = 3

\* C2: a submit of an empty or whitespace-only input, whatever the state of
\* the session, appends no message, issues no chat call and leaves the
\* pending flag as it was.
C2_BlankSubmitIsNoOp ==
  (Submitted /\ WhitespaceOnly(lastChat.input)) =>
    /\ messages = lastChat.before
    /\ lastChat.calls = 0
    /\ BagCardinality(chatInFlight) = lastChat.inFlightBefore
    /\ isLoading = lastChat.wasLoading

C2_Witness ==
  /\ Submitted
  /\ lastChat.input = <<" ", " ">>
  /\ ~lastChat.wasLoading
  /\ Len(messages) = 2

\* C3: when a chat call succeeds, the transcript is the transcript before
\* the submission followed by the user message with the submitted text and
\* a bot message with the returned reply, and the session is idle.
C3_SuccessfulTurn ==
  (SettledTurn /\ CallSucceeded(lastChat.resp)) =>
    /\ messages = lastChat.before \o
         <<userMessage(lastChat.message), botMessage(lastChat.resp.body.reply)>>
    /\ Len(messages) = Len(lastChat.before) + 2
    /\ ~IsError(messages[Len(messages)])
    /\ ~isLoading

C3_Witness ==
  /\ SettledTurn /\ CallSucceeded(lastChat.resp)
  /\ Len(messages) = 4
  /\ lastChat.message = <<"h", "h">>

\* C4: when a chat call fails, by transport failure or by a non-success
\* status, the transcript is the transcript before the submission followed
\* by the user message and a bot message with the fallback text and
\* isError set, and the session is idle.
C4_FailedTurn ==
  (SettledTurn /\ CallFailed(lastChat.resp)) =>
    /\ messages = lastChat.before \o <<userMessage(lastChat.message), errorMessage>>
    /\ Len(messages) = Len(lastChat.before) + 2
    /\ IsError(messages[Len(messages)])
    /\ messages[Len(messages)].text = FallbackText
    /\ ~isLoading
    /\ chatInFlight = EmptyBag

C4_Witness ==
  /\ SettledTurn
  /\ lastChat.resp = HttpResp(FALSE, ErrorBody)
  /\ Len(messages) = 4

(* ------------------------------ file claims ---------------------------- *)
Calls(log) == [i \in 1..Len(log) |-> log[i].call]

IsPrefix(s, full) == Len(s) <= Len(full) /\ s = SubSeq(full, 1, Len(s))

\* The last step of the file view was the return of a handler of this kind
\* (lastFile then describes the invocation, and the state is the one it left).
Done(kind) == lastFile.op = "done" /\ lastFile.kind = kind

InFlight(kind) == {t \in BagToSet(tasks) : t.kind = kind}

\* The calls an invocation has issued so far, in order.
Issued(t) == Calls(t.log) \o <<t.pc>>

\* C5: an upload answered with status "duplicate" issues no listing fetch
\* and no status fetch, changes neither the file listing nor the RAG
\* status, and leaves uploading false.
C5_DuplicateUpload ==
  /\ \A t \in InFlight("upload") : t.log # <<>> => t.log[1].status # "duplicate"
  /\ (Done("upload") /\ lastFile.log[1].status = "duplicate") =>
       /\ Calls(lastFile.log) = <<"upload">>
       /\ lastFile.wrote \cap {"files", "ragStatus"} = {}
       /\ ~uploading

C5_Witness ==
  /\ Done("upload")
  /\ lastFile.log[1].status = "duplicate"
  /\ files # {}

\* C6: an upload answered with status "ok" issues exactly one listing fetch
\* and then exactly one status fetch, both after the upload call has
\* returned, and the status fetch also when the listing fetch failed.
C6_OkUploadRefreshes ==
  /\ \A t \in InFlight("upload") : IsPrefix(Issued(t), <<"upload", "list", "status">>)
  /\ (Done("upload") /\ lastFile.log[1].status = "ok") =>
       Calls(lastFile.log) = <<"upload", "list", "status">>

C6_Witness ==
  /\ Done("upload")
  /\ Calls(lastFile.log) = <<"upload", "list", "status">>
  /\ lastFile.log[1].status = "ok"
  /\ lastFile.log[2].threw

\* C7: a confirmed delete whose call succeeds issues exactly one listing
\* fetch and then exactly one status fetch, both after the delete call has
\* returned.
C7_DeleteRefreshes ==
  /\ \A t \in InFlight("delete") : IsPrefix(Issued(t), <<"delete", "list", "status">>)
  /\ (Done("delete") /\ ~lastFile.log[1].failed) =>
       Calls(lastFile.log) = <<"delete", "list", "status">>

C7_Witness ==
  /\ Done("delete")
  /\ ~lastFile.log[1].failed
  /\ Calls(lastFile.log) = <<"delete", "list", "status">>
  /\ lastFile.wrote = {"files", "ragStatus"}

\* C8: a confirmed delete whose call fails issues no listing fetch and no
\* status fetch and changes none of the file listing, the RAG status and
\* the uploading flag.
C8_FailedDelete ==
  /\ \A t \in InFlight("delete") : t.log # <<>> => ~t.log[1].failed
  /\ (Done("delete") /\ lastFile.log[1].failed) =>
       /\ Calls(lastFile.log) = <<"delete">>
       /\ lastFile.wrote = {}
       /\ lastFile.alert = "Error al eliminar el archivo"

C8_Witness ==
  /\ Done("delete")
  /\ lastFile.log[1].failed
  /\ files # {}
  /\ uploading

\* C9: once uploading is true it becomes false again, whichever way the
\* upload ends, provided the calls of the upload settle.
C9_UploadingClears == uploading ~> ~uploading

C9_Witness ==
  /\ Done("upload")
  /\ lastFile.log[1].failed
  /\ ~uploading

\* C10: a delete the user does not confirm issues no call and changes
\* nothing of the file view.
C10_UnconfirmedDelete ==
  (lastFile.op = "event" /\ ~lastFile.confirmed) =>
    /\ ~lastFile.changed
    /\ ~lastFile.issued

C10_Witness ==
  /\ lastFile.op = "event"
  /\ ~lastFile.confirmed
  /\ lastFile.arg = "report.pdf"

\* How many upload invocations are in progress.
UploadsInFlight ==
  BagCardinality([t \in InFlight("upload") |-> CopiesIn(t, tasks)])

\* C11: at most one upload is in progress in every reachable state, and the
\* uploading flag is raised exactly while one is, through the upload call
\* and both refreshes, whether the chat session is pending or not.
C11_UploadSingleFlight ==
  /\ UploadsInFlight <= 1
  /\ uploading <=> UploadsInFlight = 1
  /\ uploading <=> fileInputValue # ""

C11_Witness ==
  /\ isLoading
  /\ uploading
  /\ started = MaxOps
  /\ \E t \in InFlight("upload") : t.pc = "status"

\* C12: an upload whose call fails issues no listing fetch and no status
\* fetch and changes neither the file listing nor the RAG status; the
\* handler's catch ends the invocation.
C12_FailedUpload ==
  /\ \A t \in InFlight("upload") : t.log # <<>> => ~t.log[1].failed
  /\ (Done("upload") /\ lastFile.log[1].failed) =>
       /\ Calls(lastFile.log) = <<"upload">>
       /\ lastFile.wrote \cap {"files", "ragStatus"} = {}
       /\ lastFile.alert = "Error al subir el archivo"

C12_Witness ==
  /\ Done("upload")
  /\ lastFile.log[1].failed
  /\ files # {}
  /\ ragStatus # EmptyObject

\* The status body the backend gives for a document store.
StatusOf(store) == [rag_initialized |-> store # {}, file_count |-> Cardinality(store)]

\* Only the mount effect has run so far.
OnlyMounted == mounted /\ started = 0

\* C13: the mount effect leaves one listing fetch and one status fetch
\* outstanding together, and each sets its own state whatever becomes of
\* the other: a listing fetch that succeeds sets the listing, a status
\* fetch that succeeds sets the status, and a failed one leaves the
\* listing empty, or the status reading as not initialized with no files.
C13_MountFetches ==
  /\ lastFile.op = "mount" =>
       tasks = SetToBag({Task("loadFiles", "list", "", {}),
                         Task("loadRAGStatus", "status", "", {})})
  /\ (OnlyMounted /\ Done("loadFiles")) =>
       /\ Calls(lastFile.log) = <<"list">>
       /\ files = IF lastFile.log[1].failed THEN {} ELSE serverFiles
  /\ (OnlyMounted /\ Done("loadRAGStatus")) =>
       /\ Calls(lastFile.log) = <<"status">>
       /\ IF lastFile.log[1].failed
            THEN ~ragInitialized(ragStatus) /\ fileCount(ragStatus) = 0
            ELSE ragStatus = StatusOf(serverFiles)

\* The listing fetch has failed and the status fetch has set the status.
C13_Witness ==
  /\ OnlyMounted
  /\ tasks = EmptyBag
  /\ Done("loadRAGStatus")
  /\ ~lastFile.log[1].failed
  /\ serverFiles # {}
  /\ files = {}
  /\ ragStatus = StatusOf(serverFiles)

\* An invocation has returned and the status fetch that ended it failed.
StatusFetchFailed ==
  /\ lastFile.op = "done"
  /\ lastFile.log[Len(lastFile.log)].call = "status"
  /\ lastFile.log[Len(lastFile.log)].failed

\* C14: when a status fetch fails, by transport failure or by a
\* non-success HTTP status, the invocation still returns and ragStatus
\* keeps the value it had before the fetch.
C14_FailedStatusKeepsLastKnown ==
  StatusFetchFailed => "ragStatus" \notin lastFile.wrote

\* The status refresh a timeout starts.
TimerRefresh == Task("loadRAGStatus", "status", "timer", {})

\* What every invocation of handleReinitializeRAG does, however many
\* refreshes it schedules: one reinitialize call and nothing else, no
\* change of the view's state, and a scheduled refresh is a status fetch
\* that starts no sooner than 3 seconds after setTimeout.
ReinitOnlyCalls ==
  /\ \A t \in InFlight("reinit") : t.pc = "reinit" /\ t.log = <<>> /\ t.wrote = {}
  /\ Done("reinit") =>
       /\ Calls(lastFile.log) = <<"reinit">>
       /\ lastFile.wrote = {}
  /\ lastFile.op = "timer" =>
       /\ lastFile.elapsed >= 3
       /\ BagIn(TimerRefresh, tasks)

\* C15 as stated: every invocation of handleReinitializeRAG issues one
\* reinitialize call and then schedules exactly one status refresh, which
\* starts only after 3 seconds; it fetches no listing and changes no state.
C15_EveryReinitSchedules ==
  /\ ReinitOnlyCalls
  /\ Done("reinit") => lastFile.scheduled = 1

\* C15 amended: an invocation whose reinitialize call returns schedules
\* exactly one status refresh, and one whose call throws schedules none;
\* either way it issues the one reinitialize call, fetches no listing and
\* changes no state, and a scheduled refresh starts only after 3 seconds.
C15_ReinitSchedulesWhenReturned ==
  /\ ReinitOnlyCalls
  /\ Done("reinit") =>
       lastFile.scheduled = IF lastFile.log[1].threw THEN 0 ELSE 1

\* The refresh of one reinitialize starts while that of another waits.
C15_Witness ==
  /\ lastFile.op = "timer"
  /\ BagIn(TimerRefresh, tasks)
  /\ timers # EmptyBag

(* ------------------------- chat claims, continued ---------------------- *)
\* The positions of the transcript that hold a user message.
UserTurns == {i \in 1..Len(messages) : messages[i].sender = "user"}

\* C16: the transcript is append-only: every step leaves it as it was or
\* appends messages at its end; none is removed, reordered or modified.
C16_TranscriptAppendOnly == [][IsPrefix(messages, messages')]_vars

\* A second turn has been appended after a first one that kept its place.
C16_Witness ==
  /\ Len(messages) = 4
  /\ ~IsError(messages[2])
  /\ IsError(messages[4])
  /\ IsPrefix(lastChat.before, messages)

\* C17: isLoading is true exactly while a chat call is outstanding, which
\* is exactly while the last message of the transcript is a user message
\* with no reply yet.
C17_PendingIffOutstanding ==
  /\ isLoading <=> chatInFlight # EmptyBag
  /\ isLoading <=> (messages # <<>> /\ messages[Len(messages)].sender = "user")

\* The second turn's call is outstanding.
C17_Witness ==
  /\ isLoading
  /\ chatInFlight # EmptyBag
  /\ Len(messages) = 3
  /\ messages[3].sender = "user"

\* C18: the user message of a turn is in the transcript while the turn's
\* call is outstanding, the turn's bot message is appended only when that
\* call settles, directly after that user message, and the transcript
\* alternates user, bot.
C18_TurnOrdering ==
  /\ \A i \in 1..Len(messages) :
       messages[i].sender = IF i % 2 = 1 THEN "user" ELSE "bot"
  /\ \A t \in BagToSet(chatInFlight) :
       /\ messages = t.updatedMessages
       /\ messages = Append(t.messages, userMessage(t.message))
  /\ SettledTurn =>
       /\ Len(messages) = Len(lastChat.before) + 2
       /\ IsPrefix(lastChat.before, messages)
       /\ messages[Len(messages) - 1] = userMessage(lastChat.message)
       /\ messages[Len(messages)].sender = "bot"

\* The second turn has settled after a first turn that failed.
C18_Witness ==
  /\ SettledTurn
  /\ Len(messages) = 4
  /\ IsError(messages[2])
  /\ messages[3] = userMessage(lastChat.message)
  /\ messages[4].sender = "bot"

\* C19: the number of chat calls issued equals the number of user messages
\* in the transcript; a settled turn, failed or not, issues no further
\* call, and a submit event issues one call if it is accepted and none
\* otherwise.
C19_OneCallPerTurn ==
  /\ chatCalls = Cardinality(UserTurns)
  /\ Submitted =>
       lastChat.calls = IF submitAccepted(lastChat.input, lastChat.wasLoading)
                          THEN 1 ELSE 0

\* Both turns have failed and two calls have been issued.
C19_Witness ==
  /\ chatCalls = 2
  /\ Cardinality(UserTurns) = 2
  /\ chatInFlight = EmptyBag
  /\ Len(messages) = 4
  /\ IsError(messages[2])
  /\ IsError(messages[4])

(* ------------------------- file claims, continued ---------------------- *)
\* No call of the view is outstanding.
Quiescent == mounted /\ tasks = EmptyBag

\* C20: when every call succeeds and only the view's own uploads and
\* deletes change the backend's documents, the file listing equals the
\* backend's document set in every state where no call is outstanding.
C20_QuiescentListing == Quiescent => files = serverFiles

====
